---- MODULE Spec2Model ----
(***************************************************************************)
(* Model of ws_watcher.py: the LRU tracker of recently used workspaces,    *)
(* the focus-event handler onWorkspace, the show/hide batches and the      *)
(* asyncio event loop that runs them.                                      *)
(***************************************************************************)
EXTENDS Integers, Sequences, FiniteSets, TLC

VARIABLES
    cap,        \* LruCache.max_size
    cache,      \* LruCache.cache, least recently used at the head
    touched,    \* history: the values passed to LruCache.insert, in order
    evicted,    \* history: the values returned by LruCache.insert, in order
    wmFocus,    \* the workspace the window manager has focused
    winWs,      \* window manager tree: the workspace each window is on
    netWmState, \* X server: the atoms of each window's _NET_WM_STATE property
    events,     \* workspace events sent by the window manager, not yet read
    nEvents,    \* number of events sent so far (the id of the last one)
    nMoves,     \* number of window moves so far
    ready,      \* asyncio's FIFO queue of tasks that are ready to run
    waiting,    \* handlers suspended in "await i3.get_tree()", oldest first
    log,        \* history: what the handlers did, in order
    mode,       \* what runs: "lru" (the tracker alone) or the command,
                \* "monitor", "showall" or "hideall"
    pc,         \* where the main coroutine of a one-shot command is
    focused_ws_num, \* main's local variable of that name
    reported,   \* the workspaces the last get_workspaces() answer marks focused
    error,      \* the exception the program ends with, "" while there is none
    ran,        \* history: the show/hide tasks that have run, and how they ended
    nRuns       \* number of times the command has been started

vars == <<cap, cache, touched, evicted, wmFocus, winWs, netWmState, events,
          nEvents, nMoves, ready, waiting, log, mode, pc, focused_ws_num,
          reported, error, ran, nRuns>>

lruVars == <<cap, cache, touched, evicted>>
wmVars == <<wmFocus, winWs, netWmState, events, nEvents, nMoves>>
loopVars == <<ready, waiting, log>>
cmdVars == <<pc, focused_ws_num>>
auxVars == <<reported, error, ran, nRuns>>

----------------------------------------------------------------------------
(* Bounds of the model *)

\* the tracker alone: capacities 0..MaxCap
MaxCap == 3
\* the tracker alone: ids 1..MaxId
MaxId == 4
\* the tracker alone: number of inserts
MaxTouches == 5
\* monitoring: number of workspace events sent
MaxEvents == 5
\* monitoring: number of window moves
MaxMoves == 1
\* monitoring: events sent whose handler has not finished
MaxBacklog == 2
\* one-shot commands: number of windows in the tree
MaxWins == 9
\* one-shot commands: focus changes while the command runs
MaxRefocus == 1
\* show/hide tasks whose mutation fails
MaxFailures == 1
\* windows when showall is run repeatedly
MaxShowWins == 2
\* times showall is run one after the other
MaxRuns == 2

(* Program constants *)

None == 0
MAX_SIZE == 3
TASK_LIMIT == 8
NEVER_HIDE == {9, 10}
HIDDEN == "_NET_WM_STATE_HIDDEN"
SHOWN == "_NET_WM_STATE_SHOWN"

(* The workspaces and windows of the modelled desktop *)

CmdWorkspaces == {1, 2, 9}

Workspaces == {1, 2, 3, 4, 9}
InitialFocus == CHOOSE n \in NEVER_HIDE : n \notin Workspaces
Wins == {101, 102}
InitialWinWs == (101 :> 1) @@ (102 :> 2)
MoveTargets == {1, 2}

----------------------------------------------------------------------------
(* LruCache *)

(* list.remove(val): drops the first occurrence; an absent val raises      *)
(* ValueError, which insert swallows, leaving the list as it is            *)
RECURSIVE ListRemove(_, _)
ListRemove(s, val) ==
    IF s = <<>> THEN <<>>
    ELSE IF Head(s) = val THEN Tail(s)
    ELSE <<Head(s)>> \o ListRemove(Tail(s), val)

Contains(s, val) == \E i \in 1..Len(s) : s[i] = val

(* Faulty variants of insert, used to test that the properties detect them *)
LruInsertNoDedupe(s, max_size, val) ==
    LET appended == Append(s, val)
    IN  IF Len(appended) > max_size
        THEN [cache |-> Tail(appended), removed |-> Head(appended)]
        ELSE [cache |-> appended, removed |-> None]

LruInsertEvictAtFull(s, max_size, val) ==
    LET deduped == ListRemove(s, val)
        appended == Append(deduped, val)
    IN  IF Len(appended) >= max_size
        THEN [cache |-> Tail(appended), removed |-> Head(appended)]
        ELSE [cache |-> appended, removed |-> None]

LruInsertKeepPosition(s, max_size, val) ==
    LET appended == IF Contains(s, val) THEN s ELSE Append(s, val)
    IN  IF Len(appended) > max_size
        THEN [cache |-> Tail(appended), removed |-> Head(appended)]
        ELSE [cache |-> appended, removed |-> None]

(* a variant that makes room before it appends *)
LruInsertEvictFirst(s, max_size, val) ==
    LET deduped == ListRemove(s, val)
    IN  IF Len(deduped) >= max_size /\ deduped # <<>>
        THEN [cache |-> Append(Tail(deduped), val), removed |-> Head(deduped)]
        ELSE [cache |-> Append(deduped, val), removed |-> None]

LruInsert(s, max_size, val) ==
    LET deduped == ListRemove(s, val)
        appended == Append(deduped, val)
    IN  IF Len(appended) > max_size
        THEN [cache |-> Tail(appended), removed |-> Head(appended)]
        ELSE [cache |-> appended, removed |-> None]

----------------------------------------------------------------------------
(* The tracker on its own: any capacity, any sequence of inserts *)

InitLru ==
    /\ mode = "lru"
    /\ cap \in 0..MaxCap
    /\ cache = <<>>
    /\ touched = <<>>
    /\ evicted = <<>>
    /\ wmFocus = None
    /\ winWs = InitialWinWs
    /\ netWmState = [w \in Wins |-> {}]
    /\ events = <<>>
    /\ nEvents = 0
    /\ nMoves = 0
    /\ ready = <<>>
    /\ waiting = <<>>
    /\ log = <<>>
    /\ pc = "running"
    /\ focused_ws_num = None
    /\ reported = {}
    /\ error = ""
    /\ ran = {}
    /\ nRuns = 0

Touch(val) ==
    /\ mode = "lru"
    /\ Len(touched) < MaxTouches
    /\ LET r == LruInsert(cache, cap, val)
       IN  /\ cache' = r.cache
           /\ evicted' = Append(evicted, r.removed)
    /\ touched' = Append(touched, val)
    /\ UNCHANGED <<cap, mode>>
    /\ UNCHANGED wmVars
    /\ UNCHANGED loopVars
    /\ UNCHANGED cmdVars
    /\ UNCHANGED auxVars

NextLru == \E val \in 1..MaxId : Touch(val)

SpecLru == InitLru /\ [][NextLru]_vars

----------------------------------------------------------------------------
(* Monitoring mode: the window manager, the event loop and onWorkspace *)

(* leaves of the tree that are on workspace num, as a set of window ids *)
LeavesOn(tree, num) == {x \in DOMAIN tree : tree[x] = num}

(* a set of window ids in tree order (ascending id) *)
RECURSIVE InOrder(_)
InOrder(S) ==
    IF S = {} THEN <<>>
    ELSE LET m == CHOOSE x \in S : \A y \in S : x <= y
         IN  <<m>> \o InOrder(S \ {m})

Task(kind, ev, change, num, wins) ==
    [kind |-> kind, ev |-> ev, change |-> change, num |-> num, wins |-> wins]

(* a history entry: what was done, for which event, on which workspace and *)
(* windows, with the tracker after it and, for a hide, the workspace that   *)
(* is focused when it is issued                                            *)
Entry(op, ev, num, wins, removed, tracker) ==
    [op |-> op, ev |-> ev, num |-> num, wins |-> wins, removed |-> removed,
     cache |-> tracker, focus |-> IF op = "hide" THEN wmFocus ELSE None]

(* asyncio.ensure_future: the new tasks go to the back of the ready queue *)
EnsureFuture(queue, tasks) == queue \o tasks

(* the tasks created by the loop of showWindows / hideWindows *)
BatchTasks(kind, ev, wins) ==
    LET order == InOrder(wins)
    IN  [i \in 1..Len(order) |-> Task(kind, ev, "", order[i], {})]

(* the loop runs the ready tasks until the end of the iteration in which  *)
(* the callback that stops it has run                                      *)
LoopRuns == {"running", "stopping"}

(* events sent whose handler has not finished *)
Unfinished ==
    Len(events) + Len(waiting)
    + Cardinality({i \in 1..Len(ready) : ready[i].kind \in {"onWorkspace", "resume", "raise"}})

InitMonitor ==
    /\ mode = "monitor"
    /\ cap = MAX_SIZE
    /\ cache = <<>>
    /\ touched = <<>>
    /\ evicted = <<>>
    /\ wmFocus = InitialFocus
    /\ winWs = InitialWinWs
    /\ netWmState = [w \in Wins |-> {}]
    /\ events = <<>>
    /\ nEvents = 0
    /\ nMoves = 0
    /\ ready = <<>>
    /\ waiting = <<>>
    /\ log = <<>>
    /\ pc = "running"
    /\ focused_ws_num = None
    /\ reported = {}
    /\ error = ""
    /\ ran = {}
    /\ nRuns = 0

(* the user focuses another workspace; the window manager sends the event *)
WsFocus(num) ==
    /\ mode = "monitor"
    /\ pc = "running"
    /\ nEvents < MaxEvents
    /\ Unfinished < MaxBacklog
    /\ num # wmFocus
    /\ wmFocus' = num
    /\ nEvents' = nEvents + 1
    /\ events' = Append(events,
                    Task("event", nEvents + 1, "focus", num, LeavesOn(winWs, num)))
    /\ UNCHANGED <<winWs, netWmState, nMoves, mode>>
    /\ UNCHANGED cmdVars
    /\ UNCHANGED lruVars
    /\ UNCHANGED loopVars
    /\ UNCHANGED auxVars

(* a workspace event that is not a focus change; onWorkspace reads only  *)
(* its change field                                                      *)
WsUrgent ==
    /\ mode = "monitor"
    /\ nEvents < MaxEvents
    /\ Unfinished < MaxBacklog
    /\ nEvents' = nEvents + 1
    /\ events' = Append(events, Task("event", nEvents + 1, "urgent", None, {}))
    /\ UNCHANGED <<wmFocus, winWs, netWmState, nMoves, mode>>
    /\ UNCHANGED cmdVars
    /\ UNCHANGED lruVars
    /\ UNCHANGED loopVars
    /\ UNCHANGED auxVars

(* the user moves a window to another workspace *)
MoveWindow(win, num) ==
    /\ mode = "monitor"
    /\ nMoves < MaxMoves
    /\ winWs[win] # num
    /\ winWs' = [winWs EXCEPT ![win] = num]
    /\ nMoves' = nMoves + 1
    /\ UNCHANGED <<wmFocus, netWmState, events, nEvents, mode>>
    /\ UNCHANGED cmdVars
    /\ UNCHANGED lruVars
    /\ UNCHANGED loopVars
    /\ UNCHANGED auxVars

(* Faulty variant: the newest unread event is dispatched first *)
ReadEventNewestFirst ==
    /\ mode = "monitor"
    /\ pc = "running"
    /\ events # <<>>
    /\ LET e == events[Len(events)]
       IN  ready' = EnsureFuture(ready,
                        <<Task("onWorkspace", e.ev, e.change, e.num, e.wins)>>)
    /\ events' = SubSeq(events, 1, Len(events) - 1)
    /\ UNCHANGED <<wmFocus, winWs, netWmState, nEvents, nMoves, mode>>
    /\ UNCHANGED cmdVars
    /\ UNCHANGED lruVars
    /\ UNCHANGED <<waiting, log>>
    /\ UNCHANGED auxVars

(* i3.main(): the connection reads one event and schedules its handler *)
ReadEvent ==
    /\ mode = "monitor"
    /\ pc = "running"
    /\ events # <<>>
    /\ LET e == Head(events)
       IN  ready' = EnsureFuture(ready,
                        <<Task("onWorkspace", e.ev, e.change, e.num, e.wins)>>)
    /\ events' = Tail(events)
    /\ UNCHANGED <<wmFocus, winWs, netWmState, nEvents, nMoves, mode>>
    /\ UNCHANGED cmdVars
    /\ UNCHANGED lruVars
    /\ UNCHANGED <<waiting, log>>
    /\ UNCHANGED auxVars

(* "if new_ws.num not in RECENTLY_USED" *)
NeedsShowAlways(tracker, num) == TRUE

NeedsShow(tracker, num) == ~Contains(tracker, num)

(* "if removed_ws is not None and removed_ws not in NEVER_HIDE" *)
ShouldHideUnpinnedOrNot(removed) == removed # None

ShouldHide(removed) == removed # None /\ removed \notin NEVER_HIDE

(* Faulty variant: the evicted workspace is hidden before the new one is   *)
(* shown                                                                   *)
OnWorkspaceHideFirst ==
    /\ mode = "monitor"
    /\ pc \in LoopRuns
    /\ ready # <<>>
    /\ Head(ready).kind = "onWorkspace"
    /\ LET h == Head(ready)
       IN  IF h.change # "focus"
           THEN /\ ready' = Tail(ready)
                /\ UNCHANGED <<waiting, log>>
                /\ UNCHANGED lruVars
           ELSE LET known == ~NeedsShow(cache, h.num)
                    shows == IF known THEN <<>> ELSE BatchTasks("show", h.ev, h.wins)
                    r == LruInsert(cache, cap, h.num)
                    hiding == ShouldHide(r.removed)
                    hides == IF hiding
                             THEN BatchTasks("hide", h.ev, LeavesOn(winWs, r.removed))
                             ELSE <<>>
                IN  /\ ready' = EnsureFuture(EnsureFuture(Tail(ready), hides), shows)
                    /\ cache' = r.cache
                    /\ touched' = Append(touched, h.num)
                    /\ evicted' = Append(evicted, r.removed)
                    /\ cap' = cap
                    /\ waiting' = waiting
                    /\ log' = log
                           \o <<Entry("begin", h.ev, h.num, h.wins, None, cache)>>
                           \o <<Entry("touch", h.ev, h.num, {}, r.removed, r.cache)>>
                           \o (IF hiding
                               THEN <<Entry("hide", h.ev, r.removed,
                                            {hides[i].num : i \in 1..Len(hides)}, None, r.cache)>>
                               ELSE <<>>)
                           \o (IF known THEN <<>>
                               ELSE <<Entry("show", h.ev, h.num,
                                            {shows[i].num : i \in 1..Len(shows)}, None, r.cache)>>)
                           \o <<Entry("end", h.ev, h.num, {}, None, r.cache)>>
    /\ UNCHANGED wmVars
    /\ UNCHANGED mode
    /\ UNCHANGED cmdVars
    /\ UNCHANGED auxVars

(* a variant in which "await showWindows(...)" suspends the handler *)
OnWorkspaceYields ==
    /\ mode = "monitor"
    /\ pc \in LoopRuns
    /\ ready # <<>>
    /\ Head(ready).kind \in {"onWorkspace", "afterShow"}
    /\ LET h == Head(ready)
       IN  IF h.change # "focus"
           THEN /\ ready' = Tail(ready)
                /\ UNCHANGED <<waiting, log>>
                /\ UNCHANGED lruVars
           ELSE IF h.kind = "onWorkspace"
           THEN LET known == ~NeedsShow(cache, h.num)
                    shows == IF known THEN <<>> ELSE BatchTasks("show", h.ev, h.wins)
                IN  /\ ready' = Append(EnsureFuture(Tail(ready), shows),
                                       Task("afterShow", h.ev, h.change, h.num, h.wins))
                    /\ log' = log
                           \o <<Entry("begin", h.ev, h.num, h.wins, None, cache)>>
                           \o (IF known THEN <<>>
                               ELSE <<Entry("show", h.ev, h.num,
                                            {shows[i].num : i \in 1..Len(shows)}, None, cache)>>)
                    /\ UNCHANGED waiting
                    /\ UNCHANGED lruVars
           ELSE LET r == LruInsert(cache, cap, h.num)
                    hiding == ShouldHide(r.removed)
                IN  /\ ready' = Tail(ready)
                    /\ cache' = r.cache
                    /\ touched' = Append(touched, h.num)
                    /\ evicted' = Append(evicted, r.removed)
                    /\ cap' = cap
                    /\ waiting' = IF hiding
                                  THEN Append(waiting, Task("get_tree", h.ev, "", r.removed, {}))
                                  ELSE waiting
                    /\ log' = log
                           \o <<Entry("touch", h.ev, h.num, {}, r.removed, r.cache)>>
                           \o (IF hiding THEN <<>>
                               ELSE <<Entry("end", h.ev, h.num, {}, None, r.cache)>>)
    /\ UNCHANGED wmVars
    /\ UNCHANGED mode
    /\ UNCHANGED cmdVars
    /\ UNCHANGED auxVars

(* onWorkspace from its start to "await i3.get_tree()" or to its end.      *)
(* "await showWindows(...)" does not suspend: showWindows awaits nothing.  *)
OnWorkspace ==
    /\ mode = "monitor"
    /\ pc \in LoopRuns
    /\ ready # <<>>
    /\ Head(ready).kind = "onWorkspace"
    /\ LET h == Head(ready)
       IN  IF h.change # "focus"
           THEN /\ ready' = Tail(ready)
                /\ UNCHANGED <<waiting, log>>
                /\ UNCHANGED lruVars
           ELSE LET known == ~NeedsShow(cache, h.num)
                    shows == IF known THEN <<>> ELSE BatchTasks("show", h.ev, h.wins)
                    r == LruInsert(cache, cap, h.num)
                    hiding == ShouldHide(r.removed)
                IN  /\ ready' = EnsureFuture(Tail(ready), shows)
                    /\ cache' = r.cache
                    /\ touched' = Append(touched, h.num)
                    /\ evicted' = Append(evicted, r.removed)
                    /\ cap' = cap
                    /\ waiting' = IF hiding
                                  THEN Append(waiting, Task("get_tree", h.ev, "", r.removed, {}))
                                  ELSE waiting
                    /\ log' = log
                           \o <<Entry("begin", h.ev, h.num, h.wins, None, cache)>>
                           \o (IF known THEN <<>>
                               ELSE <<Entry("show", h.ev, h.num,
                                            {shows[i].num : i \in 1..Len(shows)}, None, cache)>>)
                           \o <<Entry("touch", h.ev, h.num, {}, r.removed, r.cache)>>
                           \o (IF hiding THEN <<>>
                               ELSE <<Entry("end", h.ev, h.num, {}, None, r.cache)>>)
    /\ UNCHANGED wmVars
    /\ UNCHANGED mode
    /\ UNCHANGED cmdVars
    /\ UNCHANGED auxVars

(* Faulty variant: the answer is the tree as it was at startup *)
TreeReplyStale ==
    /\ mode = "monitor"
    /\ pc = "running"
    /\ waiting # <<>>
    /\ LET w == Head(waiting)
       IN  ready' = Append(ready,
                        Task("resume", w.ev, "", w.num, LeavesOn(InitialWinWs, w.num)))
    /\ waiting' = Tail(waiting)
    /\ UNCHANGED log
    /\ UNCHANGED wmVars
    /\ UNCHANGED lruVars
    /\ UNCHANGED mode
    /\ UNCHANGED cmdVars
    /\ UNCHANGED auxVars

(* the window manager answers the oldest get_tree request *)
TreeReply ==
    /\ mode = "monitor"
    /\ pc = "running"
    /\ waiting # <<>>
    /\ LET w == Head(waiting)
       IN  ready' = Append(ready,
                        Task("resume", w.ev, "", w.num, LeavesOn(winWs, w.num)))
    /\ waiting' = Tail(waiting)
    /\ UNCHANGED log
    /\ UNCHANGED wmVars
    /\ UNCHANGED lruVars
    /\ UNCHANGED mode
    /\ UNCHANGED cmdVars
    /\ UNCHANGED auxVars

(* onWorkspace after "await i3.get_tree()": filter the leaves and hide them *)
OnWorkspaceResume ==
    /\ mode = "monitor"
    /\ pc \in LoopRuns
    /\ ready # <<>>
    /\ Head(ready).kind = "resume"
    /\ LET h == Head(ready)
           hides == BatchTasks("hide", h.ev, h.wins)
       IN  /\ ready' = EnsureFuture(Tail(ready), hides)
           /\ log' = log
                  \o <<Entry("hide", h.ev, h.num,
                             {hides[i].num : i \in 1..Len(hides)}, None, cache)>>
                  \o <<Entry("end", h.ev, h.num, {}, None, cache)>>
    /\ UNCHANGED waiting
    /\ UNCHANGED wmVars
    /\ UNCHANGED lruVars
    /\ UNCHANGED mode
    /\ UNCHANGED cmdVars
    /\ UNCHANGED auxVars

(* a variant that adds the atom to the property *)
XpropSetAdds(atoms, atom) == atoms \cup {atom}

(* xprop -remove NAME deletes the property called NAME, not _NET_WM_STATE; *)
(* xprop -set _NET_WM_STATE ATOM replaces the property by that one atom    *)
XpropSet(atoms, atom) == {atom}

(* the task show(win_id) *)
RunShow ==
    /\ pc \in LoopRuns
    /\ ready # <<>>
    /\ Head(ready).kind = "show"
    /\ netWmState' = [netWmState EXCEPT
                        ![Head(ready).num] = XpropSet(@, SHOWN)]
    /\ ready' = Tail(ready)
    /\ UNCHANGED <<wmFocus, winWs, events, nEvents, nMoves>>
    /\ UNCHANGED <<waiting, log, mode>>
    /\ UNCHANGED cmdVars
    /\ UNCHANGED lruVars
    /\ ran' = ran \cup {[kind |-> Head(ready).kind, ev |-> Head(ready).ev,
                        num |-> Head(ready).num, ok |-> TRUE]}
    /\ UNCHANGED <<reported, error, nRuns>>

(* the task hide(win_id) *)
RunHide ==
    /\ pc \in LoopRuns
    /\ ready # <<>>
    /\ Head(ready).kind = "hide"
    /\ netWmState' = [netWmState EXCEPT
                        ![Head(ready).num] = XpropSet(@, HIDDEN)]
    /\ ready' = Tail(ready)
    /\ UNCHANGED <<wmFocus, winWs, events, nEvents, nMoves>>
    /\ UNCHANGED <<waiting, log, mode>>
    /\ UNCHANGED cmdVars
    /\ UNCHANGED lruVars
    /\ ran' = ran \cup {[kind |-> Head(ready).kind, ev |-> Head(ready).ev,
                        num |-> Head(ready).num, ok |-> TRUE]}
    /\ UNCHANGED <<reported, error, nRuns>>

Next ==
    \/ \E num \in Workspaces : WsFocus(num)
    \/ WsUrgent
    \/ \E win \in Wins, num \in MoveTargets : MoveWindow(win, num)
    \/ ReadEvent
    \/ OnWorkspace
    \/ TreeReply
    \/ OnWorkspaceResume
    \/ RunShow
    \/ RunHide

Spec == InitMonitor /\ [][Next]_vars

----------------------------------------------------------------------------
(* Monitoring mode with mutations that fail: xprop exits with an error,    *)
(* which subprocess.call returns and show/hide ignore, or cannot be run,   *)
(* which raises inside the task                                            *)

Failures == Cardinality({t \in ran : ~t.ok})

(* a variant in which a failure cancels the rest of the batch *)
MutationFailsAbortsBatch ==
    /\ pc \in LoopRuns
    /\ ready # <<>>
    /\ Head(ready).kind \in {"show", "hide"}
    /\ Failures < MaxFailures
    /\ ran' = ran \cup {[kind |-> Head(ready).kind, ev |-> Head(ready).ev,
                        num |-> Head(ready).num, ok |-> FALSE]}
    /\ ready' = SelectSeq(Tail(ready),
                          LAMBDA t : ~(t.kind = Head(ready).kind /\ t.ev = Head(ready).ev))
    /\ UNCHANGED <<reported, error, nRuns>>
    /\ UNCHANGED <<waiting, log, mode>>
    /\ UNCHANGED wmVars
    /\ UNCHANGED cmdVars
    /\ UNCHANGED lruVars

(* the task show(win_id) or hide(win_id) when its mutation fails: the      *)
(* window's property is left as it was and the task ends                   *)
MutationFails ==
    /\ pc \in LoopRuns
    /\ ready # <<>>
    /\ Head(ready).kind \in {"show", "hide"}
    /\ Failures < MaxFailures
    /\ ran' = ran \cup {[kind |-> Head(ready).kind, ev |-> Head(ready).ev,
                        num |-> Head(ready).num, ok |-> FALSE]}
    /\ ready' = Tail(ready)
    /\ UNCHANGED <<reported, error, nRuns>>
    /\ UNCHANGED <<waiting, log, mode>>
    /\ UNCHANGED wmVars
    /\ UNCHANGED cmdVars
    /\ UNCHANGED lruVars

(* both windows on one workspace, so that a batch has two tasks *)
InitFail ==
    /\ mode = "monitor"
    /\ cap = MAX_SIZE
    /\ cache = <<>>
    /\ touched = <<>>
    /\ evicted = <<>>
    /\ wmFocus = InitialFocus
    /\ winWs = [w \in Wins |-> 1]
    /\ netWmState = [w \in Wins |-> {}]
    /\ events = <<>>
    /\ nEvents = 0
    /\ nMoves = 0
    /\ ready = <<>>
    /\ waiting = <<>>
    /\ log = <<>>
    /\ pc = "running"
    /\ focused_ws_num = None
    /\ reported = {}
    /\ error = ""
    /\ ran = {}
    /\ nRuns = 0

NextFail ==
    \/ \E num \in Workspaces : WsFocus(num)
    \/ ReadEvent
    \/ OnWorkspace
    \/ TreeReply
    \/ OnWorkspaceResume
    \/ RunShow
    \/ RunHide
    \/ MutationFails

SpecFail == InitFail /\ [][NextFail]_vars

----------------------------------------------------------------------------
(* The one-shot commands: main("showall") and main("hideall") under        *)
(* run_until_complete                                                      *)

(* the trees with n windows: leaves() lists the windows workspace by       *)
(* workspace, and the windows are numbered in that order                   *)
TreesOf(n) ==
    {tree \in [1..n -> CmdWorkspaces] :
        \A i \in 1..n : \A j \in 1..n : i <= j => tree[i] <= tree[j]}

InitCmd ==
    /\ mode \in {"showall", "hideall"}
    /\ cap = MAX_SIZE
    /\ cache = <<>>
    /\ touched = <<>>
    /\ evicted = <<>>
    /\ wmFocus \in CmdWorkspaces
    /\ \E n \in 0..MaxWins : winWs \in TreesOf(n)
    /\ netWmState = [w \in DOMAIN winWs |-> {}]
    /\ events = <<>>
    /\ nEvents = 0
    /\ nMoves = 0
    /\ ready = <<>>
    /\ waiting = <<>>
    /\ log = <<>>
    /\ pc = "start"
    /\ focused_ws_num = None
    /\ reported = {}
    /\ error = ""
    /\ ran = {}
    /\ nRuns = 0

(* the user focuses another workspace while the command runs *)
CmdRefocus(num) ==
    /\ mode \in {"showall", "hideall"}
    /\ nEvents < MaxRefocus
    /\ num # wmFocus
    /\ wmFocus' = num
    /\ nEvents' = nEvents + 1
    /\ UNCHANGED <<winWs, netWmState, events, nMoves, mode>>
    /\ UNCHANGED lruVars
    /\ UNCHANGED loopVars
    /\ UNCHANGED cmdVars
    /\ UNCHANGED auxVars

(* a variant in which the callback that stops the loop runs first *)
MainReturnsFirst(queue) == <<Task("stop", 0, "", None, {})>> \o queue

(* run_until_complete: when main returns, the callback that stops the loop *)
(* is queued behind the tasks main has scheduled                           *)
MainReturns(queue) == Append(queue, Task("stop", 0, "", None, {}))

(* main("showall") *)
MainShowAll ==
    /\ mode = "showall"
    /\ pc = "start"
    /\ LET wins == DOMAIN winWs
           shows == BatchTasks("show", 0, wins)
       IN  /\ ready' = MainReturns(EnsureFuture(ready, shows))
           /\ log' = Append(log, Entry("show", 0, None,
                                       {shows[i].num : i \in 1..Len(shows)}, None, cache))
    /\ pc' = "running"
    /\ UNCHANGED <<focused_ws_num, waiting, mode>>
    /\ UNCHANGED wmVars
    /\ UNCHANGED lruVars
    /\ UNCHANGED auxVars

(* the answers of i3.get_workspaces(), as the set of workspaces marked    *)
(* focused: the focused one, or an answer that marks none or several       *)
GetWorkspaces ==
    {{wmFocus}} \cup {ws \in SUBSET CmdWorkspaces : Cardinality(ws) # 1}

(* a variant that takes the lowest candidate *)
GetFocusedWorkspaceAny(focused) ==
    IF focused = {}
    THEN [raised |-> TRUE, ws_num |-> None]
    ELSE [raised |-> FALSE,
          ws_num |-> CHOOSE n \in focused : \A m \in focused : n <= m]

(* (ws_num,) = (...): the unpacking raises ValueError unless exactly one   *)
(* workspace is marked focused                                             *)
GetFocusedWorkspace(focused) ==
    IF Cardinality(focused) = 1
    THEN [raised |-> FALSE, ws_num |-> CHOOSE n \in focused : TRUE]
    ELSE [raised |-> TRUE, ws_num |-> None]

(* main("hideall"): focused_ws_num = getFocusedWorkspace(i3); an exception *)
(* ends main, and run_until_complete stops the loop and raises it          *)
MainGetFocused ==
    /\ mode = "hideall"
    /\ pc = "start"
    /\ \E focused \in GetWorkspaces :
        LET got == GetFocusedWorkspace(focused)
        IN  /\ reported' = focused
            /\ IF got.raised
               THEN /\ error' = "ValueError"
                    /\ ready' = MainReturns(ready)
                    /\ pc' = "running"
                    /\ UNCHANGED focused_ws_num
               ELSE /\ focused_ws_num' = got.ws_num
                    /\ pc' = "get_tree"
                    /\ UNCHANGED <<error, ready>>
    /\ UNCHANGED <<waiting, log, mode, ran, nRuns>>
    /\ UNCHANGED wmVars
    /\ UNCHANGED lruVars

(* main("hideall"): the tree query, the filter and hideWindows *)
MainHideAll ==
    /\ mode = "hideall"
    /\ pc = "get_tree"
    /\ LET wins_to_hide == {w \in DOMAIN winWs : winWs[w] # focused_ws_num}
           hides == BatchTasks("hide", 0, wins_to_hide)
       IN  /\ ready' = MainReturns(EnsureFuture(ready, hides))
           /\ log' = Append(log, Entry("hide", 0, None,
                                       {hides[i].num : i \in 1..Len(hides)}, None, cache))
    /\ pc' = "running"
    /\ UNCHANGED <<focused_ws_num, waiting, mode>>
    /\ UNCHANGED wmVars
    /\ UNCHANGED lruVars
    /\ UNCHANGED auxVars

(* the callback of run_until_complete calls loop.stop() *)
LoopStop ==
    /\ pc = "running"
    /\ ready # <<>>
    /\ Head(ready).kind = "stop"
    /\ pc' = "stopping"
    /\ ready' = Tail(ready)
    /\ UNCHANGED <<focused_ws_num, waiting, log, mode>>
    /\ UNCHANGED wmVars
    /\ UNCHANGED lruVars
    /\ UNCHANGED auxVars

(* the iteration ends and the loop exits; tasks still queued never run *)
LoopExit ==
    /\ pc = "stopping"
    /\ pc' = "stopped"
    /\ UNCHANGED <<focused_ws_num, mode>>
    /\ UNCHANGED loopVars
    /\ UNCHANGED wmVars
    /\ UNCHANGED lruVars
    /\ UNCHANGED auxVars

NextCmd ==
    \/ \E num \in CmdWorkspaces : CmdRefocus(num)
    \/ MainShowAll
    \/ MainGetFocused
    \/ MainHideAll
    \/ RunShow
    \/ RunHide
    \/ LoopStop
    \/ LoopExit

SpecCmd == InitCmd /\ [][NextCmd]_vars

----------------------------------------------------------------------------
(* Monitoring mode from the start of monitor_loop, with a connection or    *)
(* subscription that fails and tree queries that fail. An exception in a   *)
(* handler is passed by the connection to the future "await i3.main()"     *)
(* waits for, so monitor_loop raises it and run_until_complete stops.      *)

InitErr ==
    /\ mode = "monitor"
    /\ cap = MAX_SIZE
    /\ cache = <<>>
    /\ touched = <<>>
    /\ evicted = <<>>
    /\ wmFocus = InitialFocus
    /\ winWs = InitialWinWs
    /\ netWmState = [w \in Wins |-> {}]
    /\ events = <<>>
    /\ nEvents = 0
    /\ nMoves = 0
    /\ ready = <<>>
    /\ waiting = <<>>
    /\ log = <<>>
    /\ pc = "start"
    /\ focused_ws_num = None
    /\ reported = {}
    /\ error = ""
    /\ ran = {}
    /\ nRuns = 0

(* monitor_loop: connect and i3.on succeed; monitor_loop awaits i3.main() *)
MonitorConnect ==
    /\ mode = "monitor"
    /\ pc = "start"
    /\ pc' = "running"
    /\ UNCHANGED <<focused_ws_num, mode>>
    /\ UNCHANGED loopVars
    /\ UNCHANGED wmVars
    /\ UNCHANGED lruVars
    /\ UNCHANGED auxVars

(* monitor_loop: connect or i3.on raises, which ends monitor_loop with    *)
(* nothing subscribed and nothing scheduled, so the loop stops at once     *)
MonitorConnectFails ==
    /\ mode = "monitor"
    /\ pc = "start"
    /\ error' = "ConnectionError"
    /\ pc' = "stopping"
    /\ UNCHANGED <<focused_ws_num, ready, waiting, log, mode>>
    /\ UNCHANGED <<reported, ran, nRuns>>
    /\ UNCHANGED wmVars
    /\ UNCHANGED lruVars

(* the oldest get_tree request fails: its handler is woken with the error *)
TreeFails ==
    /\ mode = "monitor"
    /\ pc = "running"
    /\ waiting # <<>>
    /\ LET w == Head(waiting)
       IN  ready' = Append(ready, Task("raise", w.ev, "", w.num, {}))
    /\ waiting' = Tail(waiting)
    /\ UNCHANGED log
    /\ UNCHANGED wmVars
    /\ UNCHANGED lruVars
    /\ UNCHANGED mode
    /\ UNCHANGED cmdVars
    /\ UNCHANGED auxVars

(* a variant in which the exception is lost with the handler's task *)
OnWorkspaceRaisesUnnoticed ==
    /\ mode = "monitor"
    /\ pc \in LoopRuns
    /\ ready # <<>>
    /\ Head(ready).kind = "raise"
    /\ LET h == Head(ready)
       IN  /\ log' = Append(log, Entry("error", h.ev, h.num, {}, h.num, cache))
           /\ error' = "TreeError"
           /\ ready' = Tail(ready)
    /\ UNCHANGED <<reported, ran, nRuns>>
    /\ UNCHANGED waiting
    /\ UNCHANGED wmVars
    /\ UNCHANGED lruVars
    /\ UNCHANGED mode
    /\ UNCHANGED cmdVars

(* onWorkspace raises out of "await i3.get_tree()": no hide is issued, and *)
(* the first exception of a handler wakes monitor_loop with it             *)
OnWorkspaceRaises ==
    /\ mode = "monitor"
    /\ pc \in LoopRuns
    /\ ready # <<>>
    /\ Head(ready).kind = "raise"
    /\ LET h == Head(ready)
       IN  /\ log' = Append(log, Entry("error", h.ev, h.num, {}, h.num, cache))
           /\ IF error = ""
              THEN /\ error' = "TreeError"
                   /\ ready' = Append(Tail(ready), Task("main_quit", h.ev, "", None, {}))
              ELSE /\ ready' = Tail(ready)
                   /\ UNCHANGED error
    /\ UNCHANGED <<reported, ran, nRuns>>
    /\ UNCHANGED waiting
    /\ UNCHANGED wmVars
    /\ UNCHANGED lruVars
    /\ UNCHANGED mode
    /\ UNCHANGED cmdVars

(* monitor_loop raises out of "await i3.main()" and ends *)
MonitorLoopRaises ==
    /\ mode = "monitor"
    /\ pc \in LoopRuns
    /\ ready # <<>>
    /\ Head(ready).kind = "main_quit"
    /\ ready' = MainReturns(Tail(ready))
    /\ UNCHANGED <<waiting, log, mode>>
    /\ UNCHANGED wmVars
    /\ UNCHANGED lruVars
    /\ UNCHANGED cmdVars
    /\ UNCHANGED auxVars

(* one step of the event loop: the task at the head of the ready queue *)
LoopStep ==
    \/ OnWorkspace
    \/ OnWorkspaceResume
    \/ OnWorkspaceRaises
    \/ MonitorLoopRaises
    \/ RunShow
    \/ RunHide
    \/ LoopStop
    \/ LoopExit

NextErr ==
    \/ MonitorConnect
    \/ MonitorConnectFails
    \/ \E num \in Workspaces : WsFocus(num)
    \/ ReadEvent
    \/ TreeReply
    \/ TreeFails
    \/ LoopStep

(* the loop keeps running the ready tasks *)
SpecErr == InitErr /\ [][NextErr]_vars /\ WF_vars(LoopStep)

----------------------------------------------------------------------------
(* showall run several times in a row on windows in any prior state *)

(* an atom of _NET_WM_STATE the program never writes *)
FULLSCREEN == "_NET_WM_STATE_FULLSCREEN"

InitShow ==
    /\ mode = "showall"
    /\ cap = MAX_SIZE
    /\ cache = <<>>
    /\ touched = <<>>
    /\ evicted = <<>>
    /\ wmFocus \in CmdWorkspaces
    /\ \E n \in 1..MaxShowWins : winWs \in TreesOf(n)
    /\ netWmState \in [DOMAIN winWs -> SUBSET {HIDDEN, SHOWN, FULLSCREEN}]
    /\ events = <<>>
    /\ nEvents = 0
    /\ nMoves = 0
    /\ ready = <<>>
    /\ waiting = <<>>
    /\ log = <<>>
    /\ pc = "start"
    /\ focused_ws_num = None
    /\ reported = {}
    /\ error = ""
    /\ ran = {}
    /\ nRuns = 0

(* the command has ended and is started again *)
Rerun ==
    /\ mode = "showall"
    /\ pc = "stopped"
    /\ nRuns + 1 < MaxRuns
    /\ nRuns' = nRuns + 1
    /\ pc' = "start"
    /\ ready' = <<>>
    /\ UNCHANGED <<focused_ws_num, waiting, log, mode>>
    /\ UNCHANGED <<reported, error, ran>>
    /\ UNCHANGED wmVars
    /\ UNCHANGED lruVars

NextShow ==
    \/ MainShowAll
    \/ RunShow
    \/ LoopStop
    \/ LoopExit
    \/ Rerun

SpecShow == InitShow /\ [][NextShow]_vars

----------------------------------------------------------------------------
(* Helpers used to state properties *)

Elems(s) == {s[i] : i \in 1..Len(s)}

Without(s, val) == SelectSeq(s, LAMBDA x : x # val)

Restrict(s, keep) == SelectSeq(s, LAMBDA x : x \in keep)

NoDuplicates(s) == \A i, j \in 1..Len(s) : s[i] = s[j] => i = j

Last(s) == s[Len(s)]

(* A step that is one call of LruCache.insert *)
IsTouch == Len(touched') = Len(touched) + 1

----------------------------------------------------------------------------
(* C2: for every capacity N >= 0 and every sequence of inserts, after each *)
(* call the tracker holds at most N entries and no id more than once.      *)
C2_BoundedNoDup == Len(cache) <= cap /\ NoDuplicates(cache)

(* a full tracker that has evicted and has been touched with a present id *)
C2_Witness ==
    /\ mode = "lru"
    /\ cap = 2
    /\ touched = <<1, 2, 1, 3, 3>>
    /\ Len(cache) = cap

(* C3: insert of an absent id appends it at the tail; if the length then   *)
(* exceeds N exactly the head is removed and returned, otherwise nothing   *)
(* is returned; the order of the other entries is unchanged. With N=3 the  *)
(* inserts 1,2,3,4 return none, none, none, 1.                             *)
C3_AbsentStep ==
    (IsTouch /\ ~Contains(cache, Last(touched'))) =>
        LET val == Last(touched')
            ret == Last(evicted')
            grown == Append(cache, val)
        IN  /\ Len(evicted') = Len(touched')
            /\ IF Len(grown) > cap
               THEN /\ ret = Head(grown)
                    /\ cache' = Tail(grown)
               ELSE /\ ret = None
                    /\ cache' = grown
            /\ Restrict(cache, Elems(cache')) = Without(cache', val)
            /\ Elems(cache) \ Elems(cache') \subseteq {ret}

C3_Example ==
    (cap = 3 /\ touched = <<1, 2, 3, 4>>) =>
        (evicted = <<None, None, None, 1>> /\ cache = <<2, 3, 4>>)

C3_InsertAbsent == [][C3_AbsentStep]_vars /\ []C3_Example

C3_Witness ==
    /\ mode = "lru"
    /\ cap = 3
    /\ touched = <<1, 2, 3, 4>>
    /\ evicted = <<None, None, None, 1>>

(* C4: with N >= 1, insert of an id already in the tracker returns no      *)
(* eviction, leaves the set of tracked ids unchanged, puts the id at the   *)
(* tail and keeps the relative order of the other entries.                 *)
C4_PresentStep ==
    (IsTouch /\ cap >= 1 /\ Contains(cache, Last(touched'))) =>
        LET val == Last(touched')
        IN  /\ Last(evicted') = None
            /\ Elems(cache') = Elems(cache)
            /\ Len(cache') = Len(cache)
            /\ Last(cache') = val
            /\ Without(cache', val) = Without(cache, val)

C4_InsertPresent == [][C4_PresentStep]_vars

(* the head of a full tracker was touched again and moved to the tail *)
C4_Witness ==
    /\ mode = "lru"
    /\ cap = 3
    /\ touched = <<1, 2, 3, 1>>
    /\ cache = <<2, 3, 1>>
    /\ evicted = <<None, None, None, None>>

----------------------------------------------------------------------------
(* Helpers over the history of monitoring mode *)

LogIdx == 1..Len(log)

IsOp(i, op) == log[i].op = op

(* the handler of every event sent so far has finished *)
HandlersDone == Unfinished = 0

(* the show and hide batches issued, in order, as <<operation, workspace>> *)
Ops ==
    LET sel == SelectSeq(log, LAMBDA e : e.op \in {"show", "hide"})
    IN  [i \in 1..Len(sel) |-> <<sel[i].op, sel[i].num>>]

(* the workspaces for which a hide batch was issued, in order *)
HiddenSeq ==
    LET sel == SelectSeq(log, LAMBDA e : e.op = "hide")
    IN  [i \in 1..Len(sel) |-> sel[i].num]

(* the tracker after each insert, in order *)
Trackers ==
    LET sel == SelectSeq(log, LAMBDA e : e.op = "touch")
    IN  [i \in 1..Len(sel) |-> sel[i].cache]

IsPrefix(s, t) == Len(s) <= Len(t) /\ s = SubSeq(t, 1, Len(s))

(* a handler never starts while the handler of an earlier event is unfinished *)
Sequential ==
    \A j \in LogIdx : IsOp(j, "begin") =>
        \A i \in 1..(j - 1) : IsOp(i, "begin") =>
            \E k \in (i + 1)..(j - 1) : IsOp(k, "end") /\ log[k].ev = log[i].ev

(* the get_tree request or its answer of event ev is still outstanding *)
HidePending(ev) ==
    \/ \E i \in 1..Len(waiting) : waiting[i].ev = ev
    \/ \E i \in 1..Len(ready) : ready[i].kind = "resume" /\ ready[i].ev = ev

----------------------------------------------------------------------------
(* C1: in monitoring mode no hide is ever issued against the windows of    *)
(* the workspace that is focused at the moment the hide is issued.         *)
C1_NeverHideFocused ==
    \A i \in LogIdx :
        (IsOp(i, "hide") /\ log[i].wins # {}) => log[i].num # log[i].focus

(* C5: when the id evicted by the insert is pinned no hide is issued for   *)
(* it, yet it leaves the tracker; when it is not pinned a hide batch is    *)
(* issued for it. With N=3 and 9 pinned, after the focus sequence          *)
(* 1,2,3,9,4 the tracker holds 3,9,4 and workspaces 1 and 2 were hidden in *)
(* that order.                                                             *)
C5_PinnedNotHidden ==
    /\ \A i \in LogIdx : IsOp(i, "hide") => log[i].num \notin NEVER_HIDE
    /\ \A i \in LogIdx :
        (IsOp(i, "touch") /\ log[i].removed \in NEVER_HIDE) =>
            /\ ~HidePending(log[i].ev)
            /\ \A j \in LogIdx : IsOp(j, "hide") => log[j].ev # log[i].ev
            /\ log[i].removed \notin Elems(log[i].cache)
    /\ \A i \in LogIdx :
        (IsOp(i, "touch") /\ log[i].removed # None
                          /\ log[i].removed \notin NEVER_HIDE) =>
            \/ HidePending(log[i].ev)
            \/ \E j \in LogIdx : /\ j > i
                                 /\ IsOp(j, "hide")
                                 /\ log[j].ev = log[i].ev
                                 /\ log[j].num = log[i].removed
    /\ (touched = <<1, 2, 3, 9, 4>>) =>
            /\ cache = <<3, 9, 4>>
            /\ evicted = <<None, None, None, 1, 2>>
            /\ IsPrefix(HiddenSeq, <<1, 2>>)
            /\ HandlersDone => HiddenSeq = <<1, 2>>

(* 9 was evicted without a hide, then 1 was evicted and hidden *)
C5_Witness ==
    /\ mode = "monitor"
    /\ touched = <<9, 1, 2, 3, 4>>
    /\ evicted = <<None, None, None, 9, 1>>
    /\ HandlersDone
    /\ HiddenSeq = <<1>>

(* C6: on a focus event for workspace w: if w is in the tracker before the *)
(* insert no show is issued and only the insert happens; otherwise a show  *)
(* is issued for every window of w carried by the event.                   *)
C6_ShowIffUntracked ==
    \A i \in LogIdx : IsOp(i, "begin") =>
        LET e == log[i].ev
            shown == {j \in LogIdx : IsOp(j, "show") /\ log[j].ev = e}
            tasks == {k \in 1..Len(ready) :
                        ready[k].kind = "show" /\ ready[k].ev = e}
        IN  IF log[i].num \in Elems(log[i].cache)
            THEN /\ shown = {}
                 /\ tasks = {}
                 /\ IsOp(i + 1, "touch") /\ log[i + 1].ev = e
                 /\ IsOp(i + 2, "end") /\ log[i + 2].ev = e
                 /\ \A j \in LogIdx : log[j].ev = e => j \in i..(i + 2)
            ELSE /\ shown = {i + 1}
                 /\ log[i + 1].wins = log[i].wins
                 /\ \A k \in tasks : ready[k].num \in log[i].wins

(* one event showed a window, a later one found its workspace tracked *)
C6_Witness ==
    /\ mode = "monitor"
    /\ \E i \in LogIdx : /\ IsOp(i, "begin")
                         /\ log[i].num \in Elems(log[i].cache)
                         /\ log[i].wins # {}
    /\ \E i \in LogIdx : IsOp(i, "show") /\ log[i].wins # {}
    /\ HandlersDone

(* C7: within the reaction to one event every show of that event is        *)
(* dispatched before any hide of that event is dispatched, and is ahead of *)
(* it in the task queue.                                                   *)
C7_ShowBeforeHide ==
    /\ \A i, j \in LogIdx :
        (IsOp(i, "hide") /\ IsOp(j, "show") /\ log[i].ev = log[j].ev) => j < i
    /\ \A i, j \in 1..Len(ready) :
        (ready[i].kind = "hide" /\ ready[j].kind = "show"
            /\ ready[i].ev = ready[j].ev) => j < i
    /\ \A i \in 1..Len(ready) : ready[i].kind = "show" =>
        \A j \in LogIdx : log[j].ev = ready[i].ev => ~IsOp(j, "hide")

(* one event showed a window and hid another *)
C7_Witness ==
    /\ mode = "monitor"
    /\ \E i, j \in LogIdx :
        /\ IsOp(i, "show") /\ log[i].wins # {}
        /\ IsOp(j, "hide") /\ log[j].wins # {}
        /\ log[i].ev = log[j].ev

Outstanding ==
    Cardinality({i \in 1..Len(ready) : ready[i].kind \in {"show", "hide"}})

C9_BoundedFanOut == Outstanding <= TASK_LIMIT

(* C10: the workspace hidden in reaction to an event is exactly the id     *)
(* returned as evicted by that event's insert when it is not pinned, the   *)
(* hide targets the windows on it at query time, and nothing else is       *)
(* hidden. With sequential handling, N=3 and focus order 1,2,3,4,1 the     *)
(* operations are show(1); show(2); show(3); show(4), hide(1); show(1),    *)
(* hide(2) and the tracker is [1], [1,2], [1,2,3], [2,3,4], [3,4,1].       *)
C10_State ==
    /\ \A i \in LogIdx : IsOp(i, "hide") =>
        /\ \E j \in 1..(i - 1) : /\ IsOp(j, "touch")
                                 /\ log[j].ev = log[i].ev
                                 /\ log[j].removed = log[i].num
        /\ log[i].num \notin NEVER_HIDE
        /\ \A j \in LogIdx : (IsOp(j, "hide") /\ log[j].ev = log[i].ev) => j = i
    /\ \A i \in LogIdx : IsOp(i, "touch") =>
        IF log[i].removed # None /\ log[i].removed \notin NEVER_HIDE
        THEN \/ HidePending(log[i].ev)
             \/ \E j \in LogIdx : /\ IsOp(j, "hide")
                                  /\ log[j].ev = log[i].ev
                                  /\ log[j].num = log[i].removed
        ELSE /\ ~HidePending(log[i].ev)
             /\ \A j \in LogIdx : IsOp(j, "hide") => log[j].ev # log[i].ev
    /\ \A k \in 1..Len(ready) : ready[k].kind = "hide" =>
        \E j \in LogIdx : /\ IsOp(j, "hide")
                          /\ log[j].ev = ready[k].ev
                          /\ ready[k].num \in log[j].wins
    /\ (touched = <<1, 2, 3, 4, 1>>) =>
        /\ Trackers = << <<1>>, <<1, 2>>, <<1, 2, 3>>, <<2, 3, 4>>, <<3, 4, 1>> >>
        /\ (Sequential /\ HandlersDone) =>
              Ops = << <<"show", 1>>, <<"show", 2>>, <<"show", 3>>,
                       <<"show", 4>>, <<"hide", 1>>,
                       <<"show", 1>>, <<"hide", 2>> >>

C10_Step ==
    /\ (waiting # <<>> /\ waiting' = Tail(waiting)) =>
        LET t == ready'[Len(ready')]
        IN  /\ t.kind = "resume"
            /\ t.ev = Head(waiting).ev
            /\ t.num = Head(waiting).num
            /\ t.wins = LeavesOn(winWs, Head(waiting).num)
    /\ (Len(log') > Len(log) /\ log'[Len(log) + 1].op = "hide") =>
        LET h == Head(ready)
            new == {k \in 1..Len(ready') : k >= Len(ready)}
        IN  /\ h.kind = "resume"
            /\ log'[Len(log) + 1].ev = h.ev
            /\ log'[Len(log) + 1].num = h.num
            /\ log'[Len(log) + 1].wins = h.wins
            /\ \A k \in new : ready'[k].kind = "hide" /\ ready'[k].ev = h.ev
            /\ {ready'[k].num : k \in new} = h.wins

C10_HideEvicted == []C10_State /\ [][C10_Step]_vars

(* the scenario, handled sequentially to its end *)
C10_Witness ==
    /\ mode = "monitor"
    /\ touched = <<1, 2, 3, 4, 1>>
    /\ Sequential
    /\ HandlersDone
    /\ HiddenSeq = <<1, 2>>

----------------------------------------------------------------------------
(* C11: hideall issues a hide for every window on every workspace other    *)
(* than the focused one and for no window of the workspace that is focused *)
(* when the hides are issued, also when the focus changes between the      *)
(* query of the focused workspace and the query of the tree.               *)
C11_HideAllButFocused ==
    mode = "hideall" =>
        \A i \in LogIdx :
            IsOp(i, "hide") =>
                log[i].wins = {w \in DOMAIN winWs : winWs[w] # log[i].focus}

(* C12: no window of a workspace of NEVER_HIDE is ever the target of a     *)
(* hide, whether the focus-event handler or hideall issues it.             *)
C12_PinnedNeverTarget ==
    /\ \A i \in LogIdx :
        IsOp(i, "hide") => \A w \in log[i].wins : winWs[w] \notin NEVER_HIDE
    /\ \A k \in 1..Len(ready) :
        ready[k].kind = "hide" => winWs[ready[k].num] \notin NEVER_HIDE

(* C13: within a show or hide batch the failure of the mutation of one     *)
(* window does not keep the mutation of any other window of the batch from *)
(* being issued and run, and does not stop the handling of later events.   *)
IsTaskOf(t, i, w) == t.kind = log[i].op /\ t.ev = log[i].ev /\ t.num = w

C13_State ==
    /\ \A i \in LogIdx :
        log[i].op \in {"show", "hide"} =>
            \A w \in log[i].wins :
                \/ \E k \in 1..Len(ready) : IsTaskOf(ready[k], i, w)
                \/ \E t \in ran : IsTaskOf(t, i, w)
    /\ pc = "running"
    /\ error = ""

C13_Step ==
    (\E t \in ran' \ ran : ~t.ok) =>
        /\ ready' = Tail(ready)
        /\ UNCHANGED <<pc, error, waiting, events, log, cache>>

C13_FailureIsolated == []C13_State /\ [][C13_Step]_vars

(* the first task of a batch failed, the second ran, and so did a show of  *)
(* a later event                                                           *)
C13_Witness ==
    \E t \in ran :
        /\ ~t.ok
        /\ \E u \in ran : u.ok /\ u.kind = t.kind /\ u.ev = t.ev /\ u.num > t.num
        /\ \E u \in ran : u.ok /\ u.ev > t.ev

C14_State ==
    /\ \A i \in LogIdx : \A j \in LogIdx :
        IsOp(i, "error") => ~(IsOp(j, "hide") /\ log[j].ev = log[i].ev)
    /\ (error # "" /\ pc = "running") =>
        \E k \in 1..Len(ready) : ready[k].kind \in {"main_quit", "stop"}
    /\ pc \in {"stopping", "stopped"} => error # ""
    /\ error = "ConnectionError" => (log = <<>> /\ ran = {} /\ cache = <<>>)

C14_Step ==
    pc = "stopped" => UNCHANGED <<log, ready, waiting, cache, ran, netWmState, pc, error>>

C15_AmbiguousFocusFatal ==
    (mode = "hideall" /\ pc # "start" /\ Cardinality(reported) # 1) =>
        /\ error = "ValueError"
        /\ focused_ws_num = None
        /\ \A i \in LogIdx : ~IsOp(i, "hide")
        /\ \A k \in 1..Len(ready) : ready[k].kind = "stop"
        /\ pc = "running" => ready # <<>>
        /\ ran = {}

(* two workspaces were marked focused, there are windows off both, and the *)
(* command has ended                                                       *)
C15_Witness ==
    /\ mode = "hideall"
    /\ Cardinality(reported) = 2
    /\ \E w \in DOMAIN winWs : winWs[w] \notin reported
    /\ pc = "stopped"
    /\ error = "ValueError"

(* C16: issuing the show batch twice on the same windows leaves every      *)
(* window in the same state as issuing it once, hidden flag cleared and    *)
(* shown flag set, whatever the windows' prior states.                     *)
C16_AfterBatch ==
    pc = "stopped" =>
        \A w \in DOMAIN winWs : HIDDEN \notin netWmState[w] /\ SHOWN \in netWmState[w]

C16_SecondBatch == nRuns >= 1 => netWmState' = netWmState

C16_ShowIdempotent == []C16_AfterBatch /\ [][C16_SecondBatch]_vars

(* the batch has run twice on two windows *)
C16_Witness ==
    /\ mode = "showall"
    /\ nRuns = 1
    /\ pc = "stopped"
    /\ Len(log) = 2
    /\ Cardinality({t.num : t \in ran}) = 2

(* C17: in every state of monitoring mode in which no show or hide task is *)
(* pending, the last operation issued for the windows of a workspace held  *)
(* in the tracker is a show, never a hide.                                 *)
C17_TrackedLastShown ==
    (mode = "monitor" /\ Outstanding = 0) =>
        \A k \in 1..Len(cache) :
            \A i \in LogIdx :
                (IsOp(i, "hide") /\ log[i].num = cache[k] /\ log[i].wins # {}) =>
                    \E j \in LogIdx : j > i /\ IsOp(j, "show") /\ log[j].num = cache[k]

(* C18: with capacity 0 every insert completes, returns the inserted id    *)
(* itself as the evicted one and leaves the tracker empty, for every id    *)
(* and every sequence of inserts.                                          *)
C18_ZeroState == cap = 0 => (cache = <<>> /\ evicted = touched)

C18_ZeroStep ==
    (IsTouch /\ cap = 0) =>
        /\ Last(evicted') = Last(touched')
        /\ Last(evicted') # None
        /\ cache' = <<>>

C18_ZeroCapacity == []C18_ZeroState /\ [][C18_ZeroStep]_vars

(* inserts of new and of repeated ids with capacity 0 *)
C18_Witness ==
    /\ mode = "lru"
    /\ cap = 0
    /\ touched = <<1, 2, 1, 1>>
    /\ evicted = <<1, 2, 1, 1>>

(* C19: the focus-event handler has no suspension point between its        *)
(* membership check, the dispatch of its show batch and its insert, so no  *)
(* step of another handler runs between them and the decision to show and  *)
(* the tracker update are one atomic step; another handler can interleave  *)
(* only at the tree query, between the insert and the hide batch.          *)
C19_HandlerStep ==
    (Len(log') > Len(log) /\ log'[Len(log) + 1].op = "begin") =>
        LET b == log'[Len(log) + 1]
            new == SubSeq(log', Len(log) + 1, Len(log'))
            shown == \E n \in 1..Len(new) : new[n].op = "show"
        IN  /\ Head(ready).kind = "onWorkspace" /\ Head(ready).ev = b.ev
            /\ \A n \in 1..Len(new) : new[n].ev = b.ev
            /\ \E n \in 1..Len(new) : new[n].op = "touch" /\ new[n].cache = cache'
            /\ b.cache = cache
            /\ shown <=> ~Contains(cache, b.num)
            /\ cache' = LruInsert(cache, cap, b.num).cache
            /\ touched' = Append(touched, b.num)

C19_ResumeStep ==
    (Len(log') > Len(log) /\ log'[Len(log) + 1].op # "begin") =>
        /\ Len(log') = Len(log) + 2
        /\ log'[Len(log) + 1].op = "hide" /\ log'[Len(log) + 2].op = "end"
        /\ log'[Len(log) + 2].ev = log'[Len(log) + 1].ev
        /\ UNCHANGED <<cache, touched>>

C19_Boundaries ==
    \A i \in LogIdx :
        (i + 1 \in LogIdx /\ log[i + 1].ev # log[i].ev) =>
            /\ log[i].op \in {"touch", "end"}
            /\ log[i + 1].op \in {"begin", "hide"}
            /\ log[i].op = "touch" => ShouldHide(log[i].removed)

C20_State ==
    (mode \in {"showall", "hideall"} /\ pc \in {"stopping", "stopped"}) =>
        /\ ready = <<>>
        /\ \A i \in LogIdx :
            \A w \in log[i].wins :
                \E t \in ran : t.kind = log[i].op /\ t.num = w /\ t.ok
        /\ error = "" => Len(log) = 1

(* while the loop runs, the callback that stops it is queued behind every  *)
(* task that is still to run                                               *)
C20_Progress ==
    (mode \in {"showall", "hideall"} /\ pc = "running") =>
        /\ ready # <<>>
        /\ ready[Len(ready)].kind = "stop"
        /\ \A k \in 1..(Len(ready) - 1) : ready[k].kind \in {"show", "hide"}

C20_AllTasksRun == C20_State /\ C20_Progress

(* hideall has ended after a batch of several hides *)
C20_Witness ==
    /\ mode = "hideall"
    /\ pc = "stopped"
    /\ Len(log) = 1
    /\ Cardinality(log[1].wins) >= 3
    /\ Cardinality(ran) = Cardinality(log[1].wins)

====
